---- MODULE Spec2Model ----
(***************************************************************************)
(* Model of backend/app/cache/redis_cache.py: the Redis adapter            *)
(* (RedisCache), the in-process LRU/TTL store (MemoryCache) and the        *)
(* failover coordinator (CompositeCache).                                  *)
(*                                                                         *)
(* Every coordinator or store call is one atomic action taken at the       *)
(* clock value `now` (time.time()).  Python's None is the string "None"    *)
(* for values; the coordinator's _redis_unavailable_since is only ever     *)
(* tested for truthiness, so its falsy class (None, 0) is the number 0     *)
(* and the clock starts at 1.                                              *)
(***************************************************************************)
EXTENDS Integers, Sequences, FiniteSets, TLC

VARIABLES
    now,                \* time.time(), whole seconds
    max_size,           \* MemoryCache._max_size
    cache,              \* MemoryCache._cache: OrderedDict, oldest entry first
    ttl,                \* MemoryCache._ttl: key -> expiry timestamp
    mode,               \* the Redis server: "up", "down" or "cmdfail"
    is_connected,       \* RedisCache._is_connected (and _client is not None)
    rstore,             \* the Redis server's keyspace: key -> [p, exp]
    unavailable_since,  \* CompositeCache._redis_unavailable_since (0: falsy)
    last,               \* the latest call (or clock step) and what it returned
    firstFail,          \* history: time of the first failed adapter call (0: none)
    everOk,             \* history: some adapter call has succeeded
    hist,               \* history of the store: see Touch
    lock,               \* MemoryCache._lock: the worker thread that holds it
    threads,            \* the executor's worker threads: see SpecThreads
    tasks,              \* the coroutines inside coordinator calls: see SpecTasks
    active_games,       \* GameEngine.active_games: session_id -> game_state
    session,            \* a GameSession: see SpecSession
    manager,            \* the ConnectionManager: see SpecConnections
    sockets,            \* the websockets and their handlers: see SpecConnections
    scheduler           \* the ETLScheduler and its threads: see SpecScheduler

vars == <<now, max_size, cache, ttl, mode, is_connected, rstore, unavailable_since,
          last, firstFail, everOk, hist, lock, threads, tasks, active_games, session,
          manager, sockets, scheduler>>

memVars == <<max_size, cache, ttl>>
redisVars == <<mode, is_connected, rstore>>
histVars == <<firstFail, everOk, hist>>
threadVars == <<lock, threads>>
svcVars == <<manager, sockets, scheduler>>
appVars == <<tasks, active_games, session, svcVars>>

\* the variables that belong to the other specifications of this module
otherVars == <<threadVars, appVars>>

----------------------------------------------------------------------------
(* Bounds of the model and constants of the program *)

MaxSize == 3            \* largest capacity N of the store-only specification
MaxTime == 3            \* last clock value of the store-only specification
CompositeSize == 2      \* capacity of the store behind the coordinator
MaxClock == 121         \* last clock value of the coordinator specification
TickStep == 60          \* seconds that pass in one step of the coordinator clock
DefaultTTL == 3600      \* ttl_seconds default of set_data
RetryInterval == 60     \* CompositeCache._retry_interval

None == "None"
MemKeys == {"A", "B", "C", "D"}
Keys == {"A", "B"}
Values == {"v1", "tup"}
MemValues == {"v1"}
TTLs == {DefaultTTL}
MemTTLs == {0, 1}
Modes == {"up", "down", "cmdfail"}

EmptyMap == [k \in {} |-> 0]

\* the worker threads of the executor
ThreadIds == {"t1", "t2"}

NoMaps == [cache |-> <<>>, ttl |-> EmptyMap]

\* a worker thread that runs no call
IdleThread ==
    [pc |-> "idle", op |-> None, key |-> None, data |-> None, ttl_seconds |-> 0,
     seen |-> NoMaps, val |-> None, ok |-> TRUE]

NoThreads == [t \in ThreadIds |-> IdleThread]

\* the coroutines that call the coordinator
TaskIds == {"a", "b", "c"}

\* a coroutine that is not inside a coordinator call
\* (at: when its command to the server failed, 0 if none has)
IdleTask == [pc |-> "idle", key |-> None, data |-> None, at |-> 0]

\* no coroutine is inside a coordinator call
NoTasks == [t \in TaskIds |-> IdleTask]

\* no GameSession has been constructed
NoSession == [status |-> "none"]

\* the websockets a client may open
WsIds == {"w1", "w2", "w3"}

\* ConnectionManager.__init__: no connection, session or activity yet
NoManager ==
    [active_connections |-> EmptyMap, sessions |-> EmptyMap, last_activity |-> EmptyMap]

\* no websocket has been opened
NoSockets == [w \in WsIds |-> [state |-> "new", client_id |-> None]]

\* the threads that ETLScheduler.start may create
SchedulerThreads == {"T1", "T2", "T3"}

\* ETLScheduler.__init__: not running, no thread
NoScheduler ==
    [is_running |-> FALSE, scheduler_thread |-> None,
     at |-> [t \in SchedulerThreads |-> "unborn"]]

----------------------------------------------------------------------------
(* OrderedDict and dict primitives *)

HasKey(c, k) == \E i \in 1..Len(c) : c[i].k = k

ValueOf(c, k) == c[CHOOSE i \in 1..Len(c) : c[i].k = k].v

KeysOf(c) == {c[i].k : i \in 1..Len(c)}

\* OrderedDict.pop(key, None)
PopKey(c, k) == SelectSeq(c, LAMBDA e : e.k # k)

\* dict.pop(key, None)
DictPop(t, k) == [j \in (DOMAIN t) \ {k} |-> t[j]]

\* dict[key] = x
DictPut(t, k, x) == [j \in (DOMAIN t) \cup {k} |-> IF j = k THEN x ELSE t[j]]

\* popitem() without last=False: removes the newest item
PopNewest(c) == SubSeq(c, 1, Len(c) - 1)

\* OrderedDict.popitem(last=False): remove the oldest item
PopOldest(c) == Tail(c)

\* OrderedDict.move_to_end(key)
MoveToEnd(c, k) == Append(PopKey(c, k), [k |-> k, v |-> ValueOf(c, k)])

\* a store that keeps the value of a key it already holds
StoreItemOnce(c, k, d) ==
    IF HasKey(c, k) THEN c ELSE Append(c, [k |-> k, v |-> d])

\* OrderedDict[key] = data: an existing key keeps its position
StoreItem(c, k, d) ==
    IF HasKey(c, k)
    THEN [i \in 1..Len(c) |-> IF c[i].k = k THEN [k |-> k, v |-> d] ELSE c[i]]
    ELSE Append(c, [k |-> k, v |-> d])

----------------------------------------------------------------------------
(* MemoryCache *)

\* _cleanup_expired: drop every key whose expiry is <= now from both maps
CleanupExpired(c, t, tnow) ==
    LET expired == {k \in DOMAIN t : t[k] <= tnow}
    IN  [cache |-> SelectSeq(c, LAMBDA e : e.k \notin expired),
         ttl   |-> [k \in (DOMAIN t) \ expired |-> t[k]]]

\* the loop with > for >=: it leaves max_size items before the insertion
RECURSIVE EvictLoopLate(_, _)
EvictLoopLate(c, size) ==
    IF Len(c) > size
    THEN EvictLoopLate(PopOldest(c), size)
    ELSE [cache |-> c, raised |-> FALSE]

\* while len(self._cache) >= self._max_size: self._cache.popitem(last=False)
\* popitem on an empty OrderedDict raises KeyError (raised |-> TRUE)
RECURSIVE EvictLoop(_, _)
EvictLoop(c, size) ==
    IF Len(c) >= size
    THEN IF Len(c) = 0
         THEN [cache |-> c, raised |-> TRUE]
         ELSE EvictLoop(PopOldest(c), size)
    ELSE [cache |-> c, raised |-> FALSE]

\* MemoryCache.set_data: the new maps and the returned bool
MemorySet(c, t, size, tnow, key, data, ttl_seconds) ==
    LET cl == CleanupExpired(c, t, tnow)
        ev == EvictLoop(cl.cache, size)
    IN  IF ev.raised
        THEN [cache |-> ev.cache, ttl |-> cl.ttl, ok |-> FALSE]
        ELSE [cache |-> StoreItem(ev.cache, key, data),
              ttl   |-> DictPut(cl.ttl, key, tnow + ttl_seconds),
              ok    |-> TRUE]

\* self._ttl.get(key, 0)
TtlGet(t, k) == IF k \in DOMAIN t THEN t[k] ELSE 0

\* the test without the expiry comparison
MemoryFreshForever(c, t, tnow, key) == HasKey(c, key)

\* the test of _get_data: present and not expired
MemoryFresh(c, t, tnow, key) == HasKey(c, key) /\ tnow <= TtlGet(t, key)

\* MemoryCache.get_data: the new maps and the returned value
MemoryGet(c, t, tnow, key) ==
    IF MemoryFresh(c, t, tnow, key)
    THEN [cache |-> MoveToEnd(c, key), ttl |-> t, val |-> ValueOf(c, key)]
    ELSE IF HasKey(c, key)
         THEN [cache |-> PopKey(c, key), ttl |-> DictPop(t, key), val |-> None]
         ELSE [cache |-> c, ttl |-> t, val |-> None]

\* a delete that reports whether the key was there
MemoryDeleteFound(c, t, key) ==
    IF HasKey(c, key)
    THEN [cache |-> PopKey(c, key), ttl |-> DictPop(t, key), ok |-> TRUE]
    ELSE [cache |-> c, ttl |-> t, ok |-> FALSE]

\* MemoryCache.delete_data: the new maps and the returned bool
MemoryDelete(c, t, key) ==
    IF HasKey(c, key)
    THEN [cache |-> PopKey(c, key), ttl |-> DictPop(t, key), ok |-> TRUE]
    ELSE [cache |-> c, ttl |-> t, ok |-> TRUE]

\* the record of a call: what was asked, what was returned (val, ok),
\* whether the adapter was invoked (tried) and succeeded (rok); twice is
\* set by a delete_data that repeats the call made just before it, warn by
\* a call that logs "Redis became unavailable, using memory cache fallback"
Call(op, key, val, ok, tried, rok) ==
    [op |-> op, key |-> key, val |-> val, ok |-> ok, tried |-> tried, rok |-> rok,
     twice |-> FALSE, warn |-> FALSE]

----------------------------------------------------------------------------
(* The store on its own: calls on MemoryCache and the passage of time *)

\* History of the store-only specification, for the keys the store holds:
\* `recent` lists them from the least to the most recently inserted or
\* read (a key goes to the end when a set inserts it or a get returns it),
\* `first` is the key that was inserted into the empty store, as long as
\* the store holds it, and `prot` tells that the call just made evicted a
\* key while it spared that first-inserted key.  A set of a key the store
\* already holds is no insertion: it voids the history until the store is
\* empty again.
Void == [recent |-> <<None>>, first |-> None, prot |-> FALSE]

NoHistory == [recent |-> <<>>, first |-> None, prot |-> FALSE]

\* the history after a call on `key` that left the store as c2; c1 is the
\* store the call found once its expired keys were swept
Touch(c1, c2, key, overwrite) ==
    IF c2 = <<>> THEN NoHistory
    ELSE IF hist = Void \/ overwrite THEN Void
    ELSE LET held == KeysOf(c2)
             rest == SelectSeq(hist.recent, LAMBDA x : x # key /\ x \in held)
         IN  [recent |-> IF key \in held THEN Append(rest, key) ELSE rest,
              first  |-> IF c1 = <<>> THEN key
                         ELSE IF hist.first \in held THEN hist.first ELSE None,
              prot   |-> /\ KeysOf(c1) \ held # {}
                         /\ hist.first \in KeysOf(c1) \cap held]

MemInit ==
    /\ now = 1
    /\ max_size \in 0..MaxSize
    /\ cache = <<>>
    /\ ttl = EmptyMap
    /\ mode = "up"
    /\ is_connected = TRUE
    /\ rstore = EmptyMap
    /\ unavailable_since = 0
    /\ last = Call("init", None, None, TRUE, FALSE, FALSE)
    /\ firstFail = 0
    /\ everOk = FALSE
    /\ hist = NoHistory
    /\ lock = None
    /\ threads = NoThreads
    /\ tasks = NoTasks
    /\ active_games = EmptyMap
    /\ session = NoSession
    /\ manager = NoManager
    /\ sockets = NoSockets
    /\ scheduler = NoScheduler

MemSetData(key, data, ttl_seconds) ==
    LET r == MemorySet(cache, ttl, max_size, now, key, data, ttl_seconds)
    IN  /\ cache' = r.cache
        /\ ttl' = r.ttl
        /\ last' = Call("set", key, data, r.ok, FALSE, FALSE)
        /\ hist' = LET swept == CleanupExpired(cache, ttl, now).cache
                   IN  Touch(swept, r.cache, key, HasKey(swept, key))
        /\ UNCHANGED <<now, max_size, redisVars, unavailable_since, firstFail, everOk>>
        /\ UNCHANGED otherVars

MemGetData(key) ==
    LET r == MemoryGet(cache, ttl, now, key)
    IN  /\ cache' = r.cache
        /\ ttl' = r.ttl
        /\ last' = Call("get", key, r.val, TRUE, FALSE, FALSE)
        /\ hist' = Touch(cache, r.cache, key, FALSE)
        /\ UNCHANGED <<now, max_size, redisVars, unavailable_since, firstFail, everOk>>
        /\ UNCHANGED otherVars

MemDeleteData(key) ==
    LET r == MemoryDelete(cache, ttl, key)
    IN  /\ cache' = r.cache
        /\ ttl' = r.ttl
        /\ last' = Call("delete", key, None, r.ok, FALSE, FALSE)
        /\ hist' = Touch(cache, r.cache, key, FALSE)
        /\ UNCHANGED <<now, max_size, redisVars, unavailable_since, firstFail, everOk>>
        /\ UNCHANGED otherVars

MemTick ==
    /\ now < MaxTime
    /\ now' = now + 1
    /\ last' = Call("tick", None, None, TRUE, FALSE, FALSE)
    /\ UNCHANGED <<memVars, redisVars, unavailable_since, histVars>>
    /\ UNCHANGED otherVars

MemNext ==
    \/ \E k \in MemKeys, d \in MemValues, s \in MemTTLs : MemSetData(k, d, s)
    \/ \E k \in MemKeys : MemGetData(k)
    \/ \E k \in MemKeys : MemDeleteData(k)
    \/ MemTick

SpecMemory == MemInit /\ [][MemNext]_vars

----------------------------------------------------------------------------
(* RedisCache: the adapter and the server behind it.                       *)
(* mode "up": ping and commands succeed; "down": ping raises;              *)
(* "cmdfail": ping succeeds and the data command raises RedisError (or,    *)
(* for a get, the payload is malformed: the same except clause).           *)

\* json.dumps raises TypeError for an object it has no encoding for
Serializable(v) == v # "obj"

\* json.dumps: a tuple is written as a JSON array
JsonDumps(v) == IF v = "tup" THEN "lst" ELSE v

\* json.loads
JsonLoads(p) == p

\* RedisCache.is_available: the returned bool, which is also the new
\* _is_connected (a ping that raises clears the flag, nothing sets it again)
IsAvailable(conn, m) == conn /\ m # "down"

\* the key is in the server's keyspace and its TTL has not run out
RedisHolds(store, tnow, key) == key \in DOMAIN store /\ tnow < store[key].exp

\* RedisCache.set_data
RedisSet(conn, m, store, tnow, key, data, ttl_seconds) ==
    IF ~IsAvailable(conn, m)
    THEN [ok |-> FALSE, conn |-> IsAvailable(conn, m), store |-> store]
    ELSE IF ~Serializable(data) \/ m = "cmdfail"
         THEN [ok |-> FALSE, conn |-> TRUE, store |-> store]
         ELSE [ok |-> TRUE, conn |-> TRUE,
               store |-> DictPut(store, key,
                                 [p |-> JsonDumps(data), exp |-> tnow + ttl_seconds])]

\* RedisCache.get_data: val is what it returns, ok whether the lookup was made
RedisGet(conn, m, store, tnow, key) ==
    IF ~IsAvailable(conn, m)
    THEN [val |-> None, ok |-> FALSE, conn |-> IsAvailable(conn, m)]
    ELSE IF m = "cmdfail"
         THEN [val |-> None, ok |-> FALSE, conn |-> TRUE]
         ELSE [val |-> IF RedisHolds(store, tnow, key)
                       THEN JsonLoads(store[key].p) ELSE None,
               ok |-> TRUE, conn |-> TRUE]

\* RedisCache.delete_data
RedisDelete(conn, m, store, key) ==
    IF ~IsAvailable(conn, m)
    THEN [ok |-> FALSE, conn |-> IsAvailable(conn, m), store |-> store]
    ELSE IF m = "cmdfail"
         THEN [ok |-> FALSE, conn |-> TRUE, store |-> store]
         ELSE [ok |-> TRUE, conn |-> TRUE, store |-> DictPop(store, key)]

----------------------------------------------------------------------------
(* CompositeCache *)

\* CompositeCache._should_try_redis
ShouldTryRedis(since, tnow) ==
    \/ since = 0
    \/ tnow - since > RetryInterval

\* the availability update of set_data and delete_data
SinceAfter(since, tnow, redis_success) ==
    IF ~redis_success
    THEN IF since = 0 THEN tnow ELSE since
    ELSE 0

\* a warning at every failed adapter call
WarnsAtEachFailure(since, redis_success) == ~redis_success

\* set_data and delete_data log "Redis became unavailable, using memory
\* cache fallback" where they set the timestamp
LogsUnavailable(since, redis_success) == ~redis_success /\ since = 0

\* the availability update of get_data: only a value resets the timestamp;
\* the except branch is never entered, RedisCache.get_data raises nothing
SinceAfterGet(since, tnow, redis_data) ==
    IF redis_data # None THEN 0 ELSE since

\* a result that needs both tiers to succeed
BothTiers(redis_success, memory_success) == redis_success /\ memory_success

\* return redis_success or memory_success
EitherTier(redis_success, memory_success) == redis_success \/ memory_success

\* a get_data that reads the store as well when the server had the value
GetResultTouching(hit, redis_data, c, t, m) ==
    IF hit THEN [cache |-> m.cache, ttl |-> m.ttl, val |-> redis_data] ELSE m

\* get_data returns the server's value and leaves the store (c, t) alone,
\* or else runs the store's get (m): the store's maps and the value returned
GetResult(hit, redis_data, c, t, m) ==
    IF hit THEN [cache |-> c, ttl |-> t, val |-> redis_data] ELSE m

\* history of the adapter calls
Record(tried, rok) ==
    /\ firstFail' = IF tried /\ ~rok /\ firstFail = 0 THEN now ELSE firstFail
    /\ everOk' = (everOk \/ (tried /\ rok))

Init ==
    /\ now = 1
    /\ max_size = CompositeSize
    /\ cache = <<>>
    /\ ttl = EmptyMap
    /\ mode \in Modes
    /\ is_connected = (mode # "down")
    /\ rstore = EmptyMap
    /\ unavailable_since = 0
    /\ last = Call("init", None, None, TRUE, FALSE, FALSE)
    /\ firstFail = 0
    /\ everOk = FALSE
    /\ hist = NoHistory
    /\ lock = None
    /\ threads = NoThreads
    /\ tasks = NoTasks
    /\ active_games = EmptyMap
    /\ session = NoSession
    /\ manager = NoManager
    /\ sockets = NoSockets
    /\ scheduler = NoScheduler

set_data(key, data, ttl_seconds) ==
    LET try == ShouldTryRedis(unavailable_since, now)
        r == RedisSet(is_connected, mode, rstore, now, key, data, ttl_seconds)
        m == MemorySet(cache, ttl, max_size, now, key, data, ttl_seconds)
        redis_success == try /\ r.ok
    IN  /\ is_connected' = IF try THEN r.conn ELSE is_connected
        /\ rstore' = IF try THEN r.store ELSE rstore
        /\ unavailable_since' =
               IF try THEN SinceAfter(unavailable_since, now, r.ok)
               ELSE unavailable_since
        /\ cache' = m.cache
        /\ ttl' = m.ttl
        /\ UNCHANGED <<max_size, hist>>
        /\ last' = [Call("set", key, data, EitherTier(redis_success, m.ok),
                         try, redis_success)
                        EXCEPT !.warn = try /\ LogsUnavailable(unavailable_since, r.ok)]
        /\ Record(try, redis_success)
        /\ UNCHANGED <<now, mode>>
        /\ UNCHANGED otherVars

\* the warning of get_data is in its except branch, which is never
\* entered: the record keeps warn = FALSE
get_data(key) ==
    LET try == ShouldTryRedis(unavailable_since, now)
        r == RedisGet(is_connected, mode, rstore, now, key)
        m == MemoryGet(cache, ttl, now, key)
        hit == try /\ r.val # None
        g == GetResult(hit, r.val, cache, ttl, m)
    IN  /\ is_connected' = IF try THEN r.conn ELSE is_connected
        /\ unavailable_since' =
               IF try THEN SinceAfterGet(unavailable_since, now, r.val)
               ELSE unavailable_since
        /\ cache' = g.cache
        /\ ttl' = g.ttl
        /\ UNCHANGED <<max_size, hist>>
        /\ last' = Call("get", key, g.val, TRUE, try, try /\ r.ok)
        /\ Record(try, try /\ r.ok)
        /\ UNCHANGED <<now, mode, rstore>>
        /\ UNCHANGED otherVars

\* the call about to be made is delete_data(key) again, straight after
\* delete_data(key), and the adapter, if the first call invoked it, answers
\* now as it answered then
Repeats(key) ==
    /\ last.op = "delete" /\ last.key = key
    /\ last.tried => ((is_connected /\ mode = "up") <=> last.rok)

delete_data(key) ==
    LET try == ShouldTryRedis(unavailable_since, now)
        r == RedisDelete(is_connected, mode, rstore, key)
        m == MemoryDelete(cache, ttl, key)
        redis_success == try /\ r.ok
    IN  /\ is_connected' = IF try THEN r.conn ELSE is_connected
        /\ rstore' = IF try THEN r.store ELSE rstore
        /\ unavailable_since' =
               IF try THEN SinceAfter(unavailable_since, now, r.ok)
               ELSE unavailable_since
        /\ cache' = m.cache
        /\ ttl' = m.ttl
        /\ UNCHANGED <<max_size, hist>>
        /\ last' = [Call("delete", key, None, EitherTier(redis_success, m.ok),
                         try, redis_success)
                        EXCEPT !.twice = Repeats(key),
                               !.warn = try /\ LogsUnavailable(unavailable_since, r.ok)]
        /\ Record(try, redis_success)
        /\ UNCHANGED <<now, mode>>
        /\ UNCHANGED otherVars

\* the server goes down, comes back, or starts failing commands
ServerChange(m) ==
    /\ m # mode
    /\ mode' = m
    /\ UNCHANGED <<now, memVars, is_connected, rstore, unavailable_since, last, histVars>>
    /\ UNCHANGED otherVars

Tick ==
    /\ now + TickStep <= MaxClock
    /\ now' = now + TickStep
    /\ last' = Call("tick", None, None, TRUE, FALSE, FALSE)
    /\ UNCHANGED <<memVars, redisVars, unavailable_since, histVars>>
    /\ UNCHANGED otherVars

Next ==
    \/ \E k \in Keys, d \in Values, s \in TTLs : set_data(k, d, s)
    \/ \E k \in Keys : get_data(k)
    \/ \E k \in Keys : delete_data(k)
    \/ \E m \in Modes : ServerChange(m)
    \/ Tick

Spec == Init /\ [][Next]_vars

----------------------------------------------------------------------------
(* Properties of the coordinator, checked under Spec *)

\* a step that is a coordinator call: the server and the clock stand still
IsCall == mode' = mode /\ now' = now

\* C1: while every adapter call so far has failed, no call invokes the
\* adapter within retry_interval of the first failed adapter call.
C1_NoRetryWithinInterval ==
    [][(IsCall /\ ~everOk' /\ firstFail # 0 /\ now - firstFail <= RetryInterval)
         => ~last'.tried]_vars

\* C2: a probe made in the Open state that fails restarts the window:
\* unavailable_since becomes the time of the failed probe.
C2_FailedProbeRestartsWindow ==
    [][(IsCall /\ unavailable_since # 0 /\ last'.tried /\ ~last'.rok)
         => unavailable_since' = now]_vars

\* C3: with the state Open, the server reachable again and more than
\* retry_interval elapsed, the next call probes the remote store, the probe
\* succeeds and the state returns to Closed.
C3_RecoveryCloses ==
    [][(IsCall /\ unavailable_since # 0 /\ mode = "up"
            /\ now - unavailable_since > RetryInterval)
         => (last'.tried /\ last'.rok /\ unavailable_since' = 0)]_vars

\* C4: a get_data made in the Closed state whose adapter call fails sets
\* unavailable_since to the current time.
C4_FailedGetOpens ==
    [][(IsCall /\ unavailable_since = 0 /\ last'.op = "get"
            /\ last'.tried /\ ~last'.rok)
         => unavailable_since' = now]_vars

\* C5: after a call whose adapter call succeeded, unavailable_since is unset.
C5_SuccessCloses ==
    [][(IsCall /\ last'.tried /\ last'.rok) => unavailable_since' = 0]_vars

\* the two tiers hold the same unexpired value for key, or both hold none
TiersAgree(key) ==
    IF RedisHolds(rstore, now, key)
    THEN /\ MemoryFresh(cache, ttl, now, key)
         /\ JsonDumps(ValueOf(cache, key)) = rstore[key].p
    ELSE ~MemoryFresh(cache, ttl, now, key)

\* C6: the remote store and the Fallback Store agree on every key.
C6_TiersAgree == \A k \in Keys : TiersAgree(k)

\* C7: a get_data made right after a successful set_data of the same key
\* (the server may have changed in between, the clock has not) returns the
\* value that was set; stated for the values JSON writes and reads back
\* unchanged.
C7_RoundTrip ==
    [][(IsCall /\ last.op = "set" /\ last.ok
            /\ JsonLoads(JsonDumps(last.val)) = last.val
            /\ last'.op = "get" /\ last'.key = last.key)
         => last'.val = last.val]_vars

----------------------------------------------------------------------------
(* Properties of the store, checked under SpecMemory *)

\* the sweep of set_data would purge nothing
NoneExpired == \A k \in DOMAIN ttl : ttl[k] > now

KeySeq(c) == [i \in 1..Len(c) |-> c[i].k]

\* C8: a set that inserts a new key into a store holding N unexpired
\* entries evicts exactly the key least recently inserted or read (the
\* first-inserted one unless a get protected it) and keeps all the others.
C8_LruEviction ==
    [][(now' = now /\ last'.op = "set" /\ max_size >= 1 /\ hist # Void
            /\ NoneExpired /\ ~HasKey(cache, last'.key) /\ Len(cache) = max_size)
         => (/\ last'.ok
             /\ KeysOf(cache') = (KeysOf(cache) \ {Head(hist.recent)}) \cup {last'.key})]_vars

\* capacity 2 after set A, set B, get A, set C: the third insertion evicted
\* B and spared A, the first-inserted key, which the get had protected
C8_Witness ==
    /\ max_size = 2
    /\ last.op = "set" /\ last.key = "C" /\ last.ok
    /\ hist.first = "A" /\ hist.prot
    /\ KeySeq(cache) = <<"A", "C">>
    /\ "B" \in DOMAIN ttl

\* C9: a set that overwrites a key of a store holding exactly N unexpired
\* entries evicts nothing.
C9_OverwriteEvictsNothing ==
    [][(now' = now /\ last'.op = "set" /\ NoneExpired
            /\ HasKey(cache, last'.key) /\ Len(cache) = max_size)
         => KeysOf(cache') = KeysOf(cache)]_vars

\* C10: after a successful set the key is the most-recently-used entry.
C10_SetMakesMRU ==
    (last.op = "set" /\ last.ok)
        => (cache # <<>> /\ cache[Len(cache)].k = last.key)

\* C11: the store never holds more than N entries.
C11_SizeBounded == Len(cache) <= max_size

\* a full store of capacity 2 or more right after a set that evicted a key
\* (the evicted key's expiry is still in _ttl)
C11_Witness ==
    /\ max_size >= 2 /\ Len(cache) = max_size
    /\ last.op = "set" /\ last.ok
    /\ (DOMAIN ttl) \ KeysOf(cache) # {}

\* C12 as stated: a key that was set at s with ttl_seconds = t (its expiry
\* s + t is in _ttl, where it stays when the key is evicted) is returned
\* by every get made before s + t.
C12_ReturnedUntilExpiry ==
    [][(now' = now /\ last'.op = "get" /\ last'.key \in DOMAIN ttl
            /\ now < ttl[last'.key])
         => last'.val # None]_vars

\* C12: a key the store still holds is returned by every get made before
\* its expiry s + t, a get made after s + t returns nothing, whatever
\* sets were made in between, and a set leaves the expiry of every other
\* key it keeps as it was.
C12_TtlExpiry ==
    [][(now' = now)
         => /\ last'.op = "get"
                => /\ (HasKey(cache, last'.key) /\ now < TtlGet(ttl, last'.key))
                        => last'.val = ValueOf(cache, last'.key)
                   /\ now > TtlGet(ttl, last'.key) => last'.val = None
            /\ last'.op = "set"
                => \A k \in KeysOf(cache') \ {last'.key} :
                       HasKey(cache, k) /\ ttl'[k] = ttl[k]]_vars

\* a get before the expiry of its key returned the value although a set
\* of another key has evicted something since the store was filled
C12_Witness ==
    /\ last.op = "get" /\ last.val # None
    /\ now > 1 /\ now < TtlGet(ttl, last.key)
    /\ (DOMAIN ttl) \ KeysOf(cache) # {}

----------------------------------------------------------------------------
(* Further properties of the coordinator, checked under Spec *)

\* C13: delete_data(k) made twice in a row returns true both times, and
\* the second call leaves both tiers' contents and the failover timestamp
\* as the first call left them.
C13_DeleteIdempotent ==
    [][(IsCall /\ last'.op = "delete" /\ last'.twice)
         => /\ last.ok /\ last'.ok
            /\ UNCHANGED <<cache, ttl, rstore, unavailable_since>>]_vars

\* a second delete_data in a row that skipped the adapter because the
\* first one, at the same instant, had opened the failover window
C13_Witness ==
    /\ last.op = "delete" /\ last.twice /\ last.ok
    /\ ~last.tried /\ unavailable_since = now /\ firstFail = now

\* C14: every set_data and delete_data performs the operation on the
\* store whether the adapter was skipped, succeeded or failed, and returns
\* true exactly when the adapter or the store reported success.
C14_FallbackAlwaysWritten ==
    [][IsCall
         => /\ last'.op = "set"
                => LET m == MemorySet(cache, ttl, max_size, now,
                                      last'.key, last'.val, DefaultTTL)
                   IN  /\ cache' = m.cache /\ ttl' = m.ttl
                       /\ HasKey(cache', last'.key)
                       /\ ValueOf(cache', last'.key) = last'.val
                       /\ last'.ok <=> (last'.rok \/ m.ok)
            /\ last'.op = "delete"
                => LET m == MemoryDelete(cache, ttl, last'.key)
                   IN  /\ cache' = m.cache /\ ttl' = m.ttl
                       /\ ~HasKey(cache', last'.key)
                       /\ last'.ok <=> (last'.rok \/ m.ok)]_vars

\* a set_data whose adapter call failed: it returned true and the store
\* holds the value, while the server does not hold the key
C14_Witness ==
    /\ last.op = "set" /\ last.tried /\ ~last.rok /\ last.ok
    /\ HasKey(cache, last.key) /\ ValueOf(cache, last.key) = last.val
    /\ last.key \notin DOMAIN rstore

\* C15: a call whose adapter call failed or was skipped takes its result
\* from the store: set_data returns true and the store holds the value,
\* delete_data returns true, and get_data returns what the store's own get
\* returns, which straight after a set_data of the key is the value set.
C15_OutageServedByFallback ==
    [][(IsCall /\ ~last'.rok)
         => /\ last'.op = "set"
                => /\ last'.ok
                   /\ MemoryFresh(cache', ttl', now, last'.key)
                   /\ ValueOf(cache', last'.key) = last'.val
            /\ last'.op = "delete" => last'.ok
            /\ last'.op = "get"
                => /\ last'.val = MemoryGet(cache, ttl, now, last'.key).val
                   /\ (last.op = "set" /\ last.key = last'.key)
                        => last'.val = last.val]_vars

\* no adapter call has ever succeeded, one has just failed inside a
\* get_data, and the get_data returned the tuple that was set
C15_Witness ==
    /\ ~everOk /\ firstFail # 0
    /\ last.op = "get" /\ last.tried /\ ~last.rok
    /\ last.val = "tup"

\* what the server answers to a get_data(key) made now: its value for the
\* key if the adapter is invoked, is connected, the server is up and holds
\* the key unexpired, and nothing otherwise
RemoteValue(key) ==
    IF /\ ShouldTryRedis(unavailable_since, now)
       /\ is_connected /\ mode = "up"
       /\ RedisHolds(rstore, now, key)
    THEN JsonLoads(rstore[key].p)
    ELSE None

\* C16: when the server returns a value, get_data returns it and the
\* store's contents and order are unchanged; when the remote path gives no
\* value (skipped, failed or miss), the result and the effect on the store
\* are those of the store's own get.
C16_RemoteHitLeavesFallback ==
    [][(IsCall /\ last'.op = "get")
         => IF RemoteValue(last'.key) # None
            THEN /\ last'.val = RemoteValue(last'.key)
                 /\ UNCHANGED <<cache, ttl>>
            ELSE LET m == MemoryGet(cache, ttl, now, last'.key)
                 IN  /\ last'.val = m.val
                     /\ cache' = m.cache /\ ttl' = m.ttl]_vars

\* a get_data answered by the server: the key it read is still the oldest
\* of the two entries of the store
C16_Witness ==
    /\ last.op = "get" /\ last.tried /\ last.rok /\ last.val # None
    /\ Len(cache) = CompositeSize /\ cache[1].k = last.key

----------------------------------------------------------------------------
(* Further properties of the store, checked under SpecMemory *)

----------------------------------------------------------------------------
(* CacheBase.build_market_data_key                                         *)
(* A string is the sequence of its pieces: the pieces are the ":" that the *)
(* string contains and the colon-free texts between them, so that joining  *)
(* strings is joining sequences.  The empty string is <<>> and Python's    *)
(* None, for the interval, is NoInterval.                                  *)

NoInterval == <<None>>
Intraday == <<"intraday">>

Symbols == {<<"AAPL">>, <<"MSFT">>, <<"BTC">>, <<"ETH">>,
            <<"AAPL", ":", "intraday">>, <<"BTC", ":", "daily">>}
DataTypes == {Intraday, <<"daily">>, <<"stock">>, <<"crypto">>,
              <<"intraday", ":", "5min">>}
Intervals == {NoInterval, <<>>, <<"1min">>, <<"5min">>}

\* the truth value Python gives to `interval`: None and "" are false
Truthy(interval) == interval # NoInterval /\ interval # <<>>

\* f"market_data:{symbol}:{data_type}"
KeyOfTwo(symbol, data_type) ==
    <<"market_data", ":">> \o symbol \o <<":">> \o data_type

\* f"market_data:{symbol}:{data_type}:{interval}"
KeyOfThree(symbol, data_type, interval) ==
    KeyOfTwo(symbol, data_type) \o <<":">> \o interval

\* a key builder that never writes the interval
BuildKeyWithoutInterval(symbol, data_type, interval) ==
    KeyOfTwo(symbol, data_type)

\* a key builder that writes the interval of every intraday key
BuildKeyAnyInterval(symbol, data_type, interval) ==
    IF data_type = Intraday
    THEN KeyOfThree(symbol, data_type, interval)
    ELSE KeyOfTwo(symbol, data_type)

build_market_data_key(symbol, data_type, interval) ==
    IF data_type = Intraday /\ Truthy(interval)
    THEN KeyOfThree(symbol, data_type, interval)
    ELSE KeyOfTwo(symbol, data_type)

\* The key builder on its own: `last` records the call just made (its
\* arguments in val, the key returned in key) and, in before, the
\* arguments and the key of the call made before it.
NoCall == [key |-> <<>>, val |-> <<>>]

KeyInit == MemInit /\ max_size = 0

BuildKey(symbol, data_type, interval) ==
    /\ last' = [op |-> "key",
                key |-> build_market_data_key(symbol, data_type, interval),
                val |-> <<symbol, data_type, interval>>,
                before |-> IF last.op = "key"
                           THEN [key |-> last.key, val |-> last.val]
                           ELSE NoCall]
    /\ UNCHANGED <<now, memVars, redisVars, unavailable_since, histVars>>
    /\ UNCHANGED otherVars

KeyNext ==
    \E symbol \in Symbols, data_type \in DataTypes, interval \in Intervals :
        BuildKey(symbol, data_type, interval)

SpecKey == KeyInit /\ [][KeyNext]_vars

----------------------------------------------------------------------------
(* Properties of the key builder, checked under SpecKey *)

\* two calls have been made
TwoCalls == last.op = "key" /\ last.before # NoCall

HasColon(str) == \E i \in 1..Len(str) : str[i] = ":"

\* the interval that reaches the key: the interval of an intraday call
\* when it is not empty, none otherwise
WrittenInterval(args) ==
    IF args[2] = Intraday /\ Truthy(args[3]) THEN args[3] ELSE NoInterval

\* C18 as stated: two calls with different (symbol, data_type, interval)
\* triples never return the same key.
C18_Injective ==
    (TwoCalls /\ last.val # last.before.val) => last.key # last.before.key

\* C18: for symbols and data types without ":", two calls return the same
\* key exactly when they agree on the symbol, the data type and the
\* interval that reaches the key.
C18_InjectiveOnWritten ==
    (/\ TwoCalls
     /\ \A i \in 1..2 : ~HasColon(last.val[i]) /\ ~HasColon(last.before.val[i]))
        => (last.key = last.before.key
              <=> /\ last.val[1] = last.before.val[1]
                  /\ last.val[2] = last.before.val[2]
                  /\ WrittenInterval(last.val) = WrittenInterval(last.before.val))

\* two intraday calls for one symbol with different intervals returned
\* different keys
C18_Witness ==
    /\ TwoCalls
    /\ last.val[1] = <<"AAPL">> /\ last.before.val[1] = <<"AAPL">>
    /\ last.val[2] = Intraday /\ last.before.val[2] = Intraday
    /\ last.val[3] = <<"5min">> /\ last.before.val[3] = <<"1min">>
    /\ last.key # last.before.key

\* C19: the key is "market_data:{symbol}:{data_type}:{interval}" when the
\* data type is "intraday" and an interval (a non-empty string) is given,
\* and "market_data:{symbol}:{data_type}" in every other case.
C19_KeyFormat ==
    last.op = "key"
        => LET symbol == last.val[1]
               data_type == last.val[2]
               interval == last.val[3]
               body == symbol \o <<":">> \o data_type
           IN  IF data_type = <<"intraday">> /\ interval \notin {NoInterval, <<>>}
               THEN last.key = <<"market_data", ":">> \o body \o <<":">> \o interval
               ELSE last.key = <<"market_data", ":">> \o body

\* an intraday call with an interval returned the key of three parts, after
\* an intraday call without interval that returned the key of two
C19_Witness ==
    /\ TwoCalls
    /\ last.val = <<<<"BTC">>, Intraday, <<"5min">>>>
    /\ last.key = <<"market_data", ":", "BTC", ":", "intraday", ":", "5min">>
    /\ last.before.val = <<<<"BTC">>, Intraday, NoInterval>>
    /\ last.before.key = <<"market_data", ":", "BTC", ":", "intraday">>

\* C20: a call logs "Redis became unavailable" exactly when it takes the
\* coordinator from Closed (timestamp unset) to Open (timestamp set): a
\* failed adapter call in the Open state logs nothing, and every
\* transition from Closed to Open logs once.
C20_OneLogPerTransition ==
    [][IsCall
         => (last'.warn <=> (unavailable_since = 0 /\ unavailable_since' # 0))]_vars

\* a failed probe in the Open state, after a healthy period: the window
\* was opened earlier and the call has logged nothing
C20_Witness ==
    /\ everOk /\ unavailable_since # 0 /\ unavailable_since < now
    /\ last.op \in {"set", "delete"} /\ last.tried /\ ~last.rok /\ ~last.warn

----------------------------------------------------------------------------
(* MemoryCache under the worker threads of loop.run_in_executor.           *)
(* Each call runs its inner function (_set_data, _get_data, _delete_data)  *)
(* on a worker thread; the function takes self._lock and then reads and    *)
(* writes the two maps one statement at a time.  threads[t] is what thread *)
(* t is doing: the call it runs, the statement it is at (pc), the maps as  *)
(* it found them when it took the lock (seen) and what it will return      *)
(* (val, ok).  The clock does not advance while the lock is held: a        *)
(* critical section is shorter than one clock unit.                        *)

ThreadKeys == {"A", "B"}
ThreadMaxSize == 2      \* largest capacity of the store in SpecThreads
ThreadMaxTime == 2      \* last clock value of SpecThreads

\* thread t moves to statement pc
At(t, pc) == threads' = [threads EXCEPT ![t].pc = pc]

\* an acquisition that does not wait for the holder
LockIgnored(l) == TRUE

\* `with self._lock:` can be entered (the threads do not re-enter)
LockFree(l) == l = None

ThreadInit ==
    /\ MemInit
    /\ max_size <= ThreadMaxSize

\* run_in_executor hands the inner function of a call to thread t
Submit(t, op, key, data, ttl_seconds) ==
    /\ threads[t].pc = "idle"
    /\ threads' = [threads EXCEPT ![t] =
           [IdleThread EXCEPT !.pc = "wait", !.op = op, !.key = key,
                              !.data = IF op = "set" THEN data ELSE None,
                              !.ttl_seconds = IF op = "set" THEN ttl_seconds ELSE 0]]
    /\ UNCHANGED <<now, memVars, redisVars, unavailable_since, last, histVars, lock>>
    /\ UNCHANGED appVars

\* with self._lock:
Acquire(t) ==
    /\ threads[t].pc = "wait"
    /\ LockFree(lock)
    /\ lock' = t
    /\ threads' = [threads EXCEPT
           ![t].pc = IF threads[t].op = "set" THEN "cleanup" ELSE "test",
           ![t].seen = [cache |-> cache, ttl |-> ttl]]
    /\ UNCHANGED <<now, memVars, redisVars, unavailable_since, last, histVars>>
    /\ UNCHANGED appVars

\* self._cleanup_expired()
SetCleanup(t) ==
    /\ threads[t].pc = "cleanup"
    /\ LET cl == CleanupExpired(cache, ttl, now)
       IN  cache' = cl.cache /\ ttl' = cl.ttl
    /\ At(t, "evict")
    /\ UNCHANGED <<now, max_size, redisVars, unavailable_since, last, histVars, lock>>
    /\ UNCHANGED appVars

\* one test of the while loop and, if it holds, one popitem(last=False);
\* the KeyError of popitem on the empty map leaves the with block
SetEvict(t) ==
    /\ threads[t].pc = "evict"
    /\ IF Len(cache) >= max_size
       THEN IF Len(cache) = 0
            THEN /\ threads' = [threads EXCEPT ![t].pc = "release", ![t].ok = FALSE]
                 /\ cache' = cache
            ELSE /\ cache' = PopOldest(cache)
                 /\ threads' = threads
       ELSE /\ At(t, "store")
            /\ cache' = cache
    /\ UNCHANGED <<now, max_size, ttl, redisVars, unavailable_since, last, histVars, lock>>
    /\ UNCHANGED appVars

\* self._cache[key] = data
SetStore(t) ==
    /\ threads[t].pc = "store"
    /\ cache' = StoreItem(cache, threads[t].key, threads[t].data)
    /\ At(t, "expiry")
    /\ UNCHANGED <<now, max_size, ttl, redisVars, unavailable_since, last, histVars, lock>>
    /\ UNCHANGED appVars

\* self._ttl[key] = time.time() + ttl_seconds
SetExpiry(t) ==
    /\ threads[t].pc = "expiry"
    /\ ttl' = DictPut(ttl, threads[t].key, now + threads[t].ttl_seconds)
    /\ threads' = [threads EXCEPT ![t].pc = "release", ![t].ok = TRUE]
    /\ UNCHANGED <<now, max_size, cache, redisVars, unavailable_since, last, histVars, lock>>
    /\ UNCHANGED appVars

\* if key in self._cache and time.time() <= self._ttl.get(key, 0): ...
\* if key in self._cache: ...   return None
GetTest(t) ==
    /\ threads[t].pc = "test" /\ threads[t].op = "get"
    /\ At(t, IF MemoryFresh(cache, ttl, now, threads[t].key) THEN "move"
             ELSE IF HasKey(cache, threads[t].key) THEN "pop"
             ELSE "release")
    /\ UNCHANGED <<now, memVars, redisVars, unavailable_since, last, histVars, lock>>
    /\ UNCHANGED appVars

\* self._cache.move_to_end(key); return self._cache[key]
GetMove(t) ==
    /\ threads[t].pc = "move"
    /\ HasKey(cache, threads[t].key)
    /\ cache' = MoveToEnd(cache, threads[t].key)
    /\ threads' = [threads EXCEPT ![t].pc = "release",
                                  ![t].val = ValueOf(cache, threads[t].key)]
    /\ UNCHANGED <<now, max_size, ttl, redisVars, unavailable_since, last, histVars, lock>>
    /\ UNCHANGED appVars

\* if key in self._cache:
DeleteTest(t) ==
    /\ threads[t].pc = "test" /\ threads[t].op = "delete"
    /\ At(t, IF HasKey(cache, threads[t].key) THEN "pop" ELSE "release")
    /\ UNCHANGED <<now, memVars, redisVars, unavailable_since, last, histVars, lock>>
    /\ UNCHANGED appVars

\* self._cache.pop(key, None)
PopValue(t) ==
    /\ threads[t].pc = "pop"
    /\ cache' = PopKey(cache, threads[t].key)
    /\ At(t, "popttl")
    /\ UNCHANGED <<now, max_size, ttl, redisVars, unavailable_since, last, histVars, lock>>
    /\ UNCHANGED appVars

\* self._ttl.pop(key, None)
PopExpiry(t) ==
    /\ threads[t].pc = "popttl"
    /\ ttl' = DictPop(ttl, threads[t].key)
    /\ At(t, "release")
    /\ UNCHANGED <<now, max_size, cache, redisVars, unavailable_since, last, histVars, lock>>
    /\ UNCHANGED appVars

\* the end of the with block
Release(t) ==
    /\ threads[t].pc = "release"
    /\ lock' = None
    /\ At(t, "done")
    /\ UNCHANGED <<now, memVars, redisVars, unavailable_since, last, histVars>>
    /\ UNCHANGED appVars

\* the call returns to its caller
Return(t) ==
    /\ threads[t].pc = "done"
    /\ threads' = [threads EXCEPT ![t] = IdleThread]
    /\ UNCHANGED <<now, memVars, redisVars, unavailable_since, last, histVars, lock>>
    /\ UNCHANGED appVars

ThreadTick ==
    /\ lock = None
    /\ now < ThreadMaxTime
    /\ now' = now + 1
    /\ UNCHANGED <<memVars, redisVars, unavailable_since, last, histVars, threadVars>>
    /\ UNCHANGED appVars

ThreadNext ==
    \/ \E t \in ThreadIds, op \in {"set", "get", "delete"}, k \in ThreadKeys,
          d \in MemValues, s \in MemTTLs : Submit(t, op, k, d, s)
    \/ \E t \in ThreadIds : Acquire(t)
    \/ \E t \in ThreadIds : SetCleanup(t)
    \/ \E t \in ThreadIds : SetEvict(t)
    \/ \E t \in ThreadIds : SetStore(t)
    \/ \E t \in ThreadIds : SetExpiry(t)
    \/ \E t \in ThreadIds : GetTest(t)
    \/ \E t \in ThreadIds : GetMove(t)
    \/ \E t \in ThreadIds : DeleteTest(t)
    \/ \E t \in ThreadIds : PopValue(t)
    \/ \E t \in ThreadIds : PopExpiry(t)
    \/ \E t \in ThreadIds : Release(t)
    \/ \E t \in ThreadIds : Return(t)
    \/ ThreadTick

SpecThreads == ThreadInit /\ [][ThreadNext]_vars

----------------------------------------------------------------------------
(* Properties of the store under threads, checked under SpecThreads *)

\* the statements between taking the lock and leaving the with block
Inside(t) == threads[t].pc \notin {"idle", "wait", "done"}

\* what the call of thread t makes of the maps it found, as one step
Sequential(t) ==
    LET c == threads[t].seen.cache
        m == threads[t].seen.ttl
        o == threads[t]
    IN  IF o.op = "set"
        THEN LET r == MemorySet(c, m, max_size, now, o.key, o.data, o.ttl_seconds)
             IN  [cache |-> r.cache, ttl |-> r.ttl, val |-> None, ok |-> r.ok]
        ELSE IF o.op = "get"
        THEN LET r == MemoryGet(c, m, now, o.key)
             IN  [cache |-> r.cache, ttl |-> r.ttl, val |-> r.val, ok |-> TRUE]
        ELSE LET r == MemoryDelete(c, m, o.key)
             IN  [cache |-> r.cache, ttl |-> r.ttl, val |-> None, ok |-> r.ok]

\* C21: concurrent calls are serialized by the lock.  At most one thread
\* is between taking the lock and leaving the with block, so no call sees
\* maps that another call is half-way through updating; and when a call
\* leaves the with block the maps and its result are those of the whole
\* call applied in one step to the maps it found when it took the lock,
\* which are the maps the previous holder left.
C21_Serialized ==
    /\ \A t, u \in ThreadIds : (Inside(t) /\ Inside(u)) => t = u
    /\ \A t \in ThreadIds : Inside(t) => lock = t
    /\ \A t \in ThreadIds :
           threads[t].pc = "release"
               => /\ cache = Sequential(t).cache
                  /\ ttl = Sequential(t).ttl
                  /\ threads[t].val = Sequential(t).val
                  /\ threads[t].ok = Sequential(t).ok

\* a set is half-way (the value is stored, its expiry is not yet) after
\* evicting a key, while the other thread waits for the lock with a get
\* of the key being written
C21_Witness ==
    /\ threads["t1"].pc = "expiry" /\ lock = "t1"
    /\ Len(threads["t1"].seen.cache) = max_size /\ max_size = ThreadMaxSize
    /\ threads["t2"].pc = "wait" /\ threads["t2"].op = "get"
    /\ threads["t2"].key = threads["t1"].key

----------------------------------------------------------------------------
(* GameService and GameEngine (services/game_service.py, game_engine.py).  *)
(* Times are whole seconds on the clock `now`.  A game state keeps the     *)
(* fields the engine computes with; the chart data it only carries along   *)
(* (setup, overlays, instrument) is left out.  `last` is the dict the      *)
(* latest engine call returned.                                            *)

OptionCount == 4            \* options built by _generate_continuation_options
StartLives == 3             \* "lives" of a seeded game
SessionSeconds == 300       \* timedelta(minutes=5)
EngineMaxRound == 3         \* rounds played in the model

SessionIds == {"s1", "s2"}
Seedable == {"s1"}
Difficulties == {2}
\* the clock readings of the engine specification: answers after 0, 10,
\* 20 and 30 or more seconds, and a reading past the end of the session
EngineClock == {1, 11, 21, 41, 342}
Continuations == <<"real", "bullish", "bearish", "sideways">>

\* the options after random.shuffle and the renumbering: the real
\* continuation is at position `correct`, the fakes fill the other places
ShuffledOptions(correct) ==
    [i \in 1..OptionCount |->
        [id |-> i - 1,
         data |-> IF i - 1 = correct THEN Continuations[1]
                  ELSE Continuations[IF i - 1 < correct THEN i + 1 ELSE i],
         is_correct |-> (i - 1 = correct)]]

\* GameService.check_answer
check_answer(user_answer, options) ==
    \E i \in 1..Len(options) :
        options[i].id = user_answer /\ options[i].is_correct

\* a time bonus that is rounded to the nearest point
calculate_score_rounded(is_correct, difficulty, time_taken) ==
    IF ~is_correct THEN 0
    ELSE LET time_bonus == IF time_taken <= 10 THEN 50
                           ELSE IF time_taken >= 30 THEN 0
                           ELSE (50 * (30 - time_taken) + 10) \div 20
         IN  100 * difficulty + time_bonus * difficulty

\* GameService.calculate_score, for a whole number of seconds: int()
\* truncates the quotient, which is not negative here
calculate_score(is_correct, difficulty, time_taken) ==
    IF ~is_correct THEN 0
    ELSE LET time_bonus == IF time_taken <= 10 THEN 50
                           ELSE IF time_taken >= 30 THEN 0
                           ELSE (50 * (30 - time_taken)) \div 20
         IN  100 * difficulty + time_bonus * difficulty

\* GameEngine._find_correct_option
FindCorrectOption(options) ==
    IF \E i \in 1..Len(options) : options[i].is_correct
    THEN options[CHOOSE i \in 1..Len(options) :
                     /\ options[i].is_correct
                     /\ \A j \in 1..(i - 1) : ~options[j].is_correct].id
    ELSE -1

Min(a, b) == IF a <= b THEN a ELSE b

\* Python's None in a numeric field of a game state, and the three values
\* of its "is_correct" field
NoNumber == -1
PyBool(b) == IF b THEN "True" ELSE "False"

\* a response built on the stored dict itself
PrepareInPlace(game_state) ==
    LET response ==
            IF game_state.status = "active"
            THEN [game_state EXCEPT !.options =
                     [i \in 1..Len(game_state.options) |->
                         [id |-> game_state.options[i].id,
                          data |-> game_state.options[i].data]]]
            ELSE game_state
    IN  [response |-> response, stored |-> response]

\* GameEngine._prepare_game_response: the dict returned and the stored
\* dict after the call (the response is a copy, the options of an active
\* game are rebuilt without is_correct)
PrepareGameResponse(game_state) ==
    LET response ==
            IF game_state.status = "active"
            THEN [game_state EXCEPT !.options =
                     [i \in 1..Len(game_state.options) |->
                         [id |-> game_state.options[i].id,
                          data |-> game_state.options[i].data]]]
            ELSE game_state
    IN  [response |-> response, stored |-> game_state]

NotFound == [error |-> "Game session not found"]

\* a guess that costs a life whether it is right or wrong
LivesAfterAnyGuess(lives, is_correct) == lives - 1

\* game_state["lives"] -= 1 in the branch of an incorrect answer
LivesAfter(lives, is_correct) == IF is_correct THEN lives ELSE lives - 1

\* a test that lets a guess through until the game is completed
StillActiveUntilCompleted(game_state) == game_state.status # "completed"

\* submit_guess goes on only when game_state["status"] == "active"
StillActive(game_state) == game_state.status = "active"
AlreadyCompleted == [error |-> "Game already completed"]

\* what a call returned: the call, the session and the dict
Reply(op, session_id, body) == [op |-> op, key |-> session_id, body |-> body]

EngineInit ==
    /\ MemInit
    /\ max_size = 0

\* the cache, the threads and the other objects stay as they are
EngineFrame ==
    UNCHANGED <<max_size, cache, ttl, redisVars, unavailable_since, histVars,
                threadVars, tasks, session, svcVars>>

seed_game(session_id, difficulty, correct) ==
    LET game_state ==
            [session_id |-> session_id, difficulty |-> difficulty,
             options |-> ShuffledOptions(correct),
             start_time |-> now, status |-> "active",
             user_answer |-> NoNumber, is_correct |-> None,
             score |-> 0, time_taken |-> NoNumber,
             lives |-> StartLives, streak |-> 0,
             session_end_time |-> now + SessionSeconds,
             round |-> 1]
        r == PrepareGameResponse(game_state)
    IN  /\ active_games' = DictPut(active_games, session_id, r.stored)
        /\ last' = Reply("seed_game", session_id, r.response)
        /\ UNCHANGED now
        /\ EngineFrame

submit_guess(session_id, user_answer) ==
    /\ UNCHANGED now
    /\ EngineFrame
    /\ IF session_id \notin DOMAIN active_games
       THEN /\ last' = Reply("submit_guess", session_id, NotFound)
            /\ UNCHANGED active_games
       ELSE IF ~StillActive(active_games[session_id])
       THEN /\ last' = Reply("submit_guess", session_id, AlreadyCompleted)
            /\ UNCHANGED active_games
       ELSE LET g == active_games[session_id]
                time_taken == now - g.start_time
                is_correct == check_answer(user_answer, g.options)
                streak == IF is_correct THEN g.streak + 1 ELSE 0
                lives == LivesAfter(g.lives, is_correct)
                round_score ==
                    IF is_correct
                    THEN calculate_score(is_correct, g.difficulty, time_taken)
                             + Min(streak - 1, 5) * 5
                    ELSE 0
                over == lives <= 0 \/ now > g.session_end_time
                g2 == [g EXCEPT !.user_answer = user_answer,
                                !.time_taken = time_taken,
                                !.is_correct = PyBool(is_correct),
                                !.streak = streak,
                                !.lives = lives,
                                !.score = g.score + round_score,
                                !.round = IF over THEN g.round ELSE g.round + 1,
                                !.status = IF over THEN "completed" ELSE "next_round"]
            IN  /\ active_games' = [active_games EXCEPT ![session_id] = g2]
                /\ last' = Reply("submit_guess", session_id,
                                 [session_id |-> session_id,
                                  is_correct |-> is_correct,
                                  score |-> g2.score,
                                  round_score |-> round_score,
                                  time_taken |-> time_taken,
                                  correct_option |-> FindCorrectOption(g.options),
                                  lives |-> lives,
                                  streak |-> streak,
                                  status |-> g2.status,
                                  round |-> g2.round])

get_game_state(session_id) ==
    /\ UNCHANGED now
    /\ EngineFrame
    /\ IF session_id \notin DOMAIN active_games
       THEN /\ last' = Reply("get_game_state", session_id, NotFound)
            /\ UNCHANGED active_games
       ELSE LET r == PrepareGameResponse(active_games[session_id])
            IN  /\ active_games' = [active_games EXCEPT ![session_id] = r.stored]
                /\ last' = Reply("get_game_state", session_id, r.response)

next_round(session_id, correct) ==
    /\ UNCHANGED now
    /\ EngineFrame
    /\ IF session_id \notin DOMAIN active_games
       THEN /\ last' = Reply("next_round", session_id, NotFound)
            /\ UNCHANGED active_games
       ELSE IF active_games[session_id].status = "completed"
       THEN /\ last' = Reply("next_round", session_id, AlreadyCompleted)
            /\ UNCHANGED active_games
       ELSE LET g == active_games[session_id]
                g2 == [g EXCEPT !.options = ShuffledOptions(correct),
                                !.start_time = now,
                                !.status = "active",
                                !.user_answer = NoNumber,
                                !.is_correct = None,
                                !.time_taken = NoNumber]
                r == PrepareGameResponse(g2)
            IN  /\ g.round <= EngineMaxRound
                /\ active_games' = [active_games EXCEPT ![session_id] = r.stored]
                /\ last' = Reply("next_round", session_id, r.response)

EngineTick(reading) ==
    /\ reading > now
    /\ now' = reading
    /\ UNCHANGED <<last, active_games>>
    /\ EngineFrame

EngineNext ==
    \/ \E sid \in Seedable, d \in Difficulties, c \in 0..(OptionCount - 1) :
           seed_game(sid, d, c)
    \/ \E sid \in SessionIds, a \in 0..OptionCount : submit_guess(sid, a)
    \/ \E sid \in SessionIds : get_game_state(sid)
    \/ \E sid \in SessionIds, c \in 0..(OptionCount - 1) : next_round(sid, c)
    \/ \E reading \in EngineClock : EngineTick(reading)

SpecEngine == EngineInit /\ [][EngineNext]_vars

----------------------------------------------------------------------------
(* Properties of the engine, checked under SpecEngine *)

\* the step is a submit_guess that the engine accepted
Submitted ==
    /\ last'.op = "submit_guess"
    /\ last'.key \in DOMAIN active_games
    /\ active_games[last'.key].status = "active"
    /\ active_games' # active_games

\* C22: after seed_game has created an active session, a submit_guess
\* with the correct option reports is_correct true and a positive score,
\* and the stored game state has status "completed".
C22_FullGameFlow ==
    [][(/\ last.op = "seed_game" /\ last'.key = last.key
        /\ Submitted
        /\ active_games'[last'.key].user_answer
               = FindCorrectOption(active_games[last'.key].options))
         => /\ last'.body.is_correct
            /\ last'.body.score > 0
            /\ active_games'[last'.key].status = "completed"]_vars

\* the keys of every option of a list of options
OptionKeys(options) == {DOMAIN options[i] : i \in 1..Len(options)}

\* C23: a response of seed_game, next_round or get_game_state for a game
\* whose status is "active" has no is_correct key on any option (every
\* option has the keys id and data only, wherever the correct one is); a
\* response for a game that is no longer active has the flags; and the
\* stored game state keeps its flags: get_game_state leaves it unchanged.
C23_ActiveResponseHidesSolution ==
    [][(/\ last'.op \in {"seed_game", "next_round", "get_game_state"}
        /\ "error" \notin DOMAIN last'.body)
         => /\ last'.body.status = "active"
                => OptionKeys(last'.body.options) = {{"id", "data"}}
            /\ last'.body.status # "active"
                => OptionKeys(last'.body.options) = {{"id", "data", "is_correct"}}
            /\ OptionKeys(active_games'[last'.key].options)
                   = {{"id", "data", "is_correct"}}
            /\ last'.body.status = active_games'[last'.key].status
            /\ last'.op = "get_game_state" => UNCHANGED active_games]_vars

\* get_game_state has answered for the second, active round of a game:
\* the response has no flag and the stored state still says which option
\* is correct
C23_Witness ==
    /\ last.op = "get_game_state" /\ "error" \notin DOMAIN last.body
    /\ last.body.status = "active" /\ last.body.round = 2
    /\ OptionKeys(last.body.options) = {{"id", "data"}}
    /\ FindCorrectOption(active_games[last.key].options) = 2

----------------------------------------------------------------------------
(* GameSession (models/game_session.py): the status, the statistics and    *)
(* the entries of session_data that submit_guess reads and writes.  `last` *)
(* is the latest call on the session and what it returned.                 *)

BaseScore == 100            \* base_score of submit_guess
SessionMaxRounds == 3       \* rounds played in the model

GameDifficulty == {"easy", "medium", "hard"}
GameStatus == {"created", "active", "completed", "expired"}
Choices == 0..2

\* difficulty_multiplier, in tenths
Multiplier10(difficulty_level) ==
    IF difficulty_level = "easy" THEN 10
    ELSE IF difficulty_level = "medium" THEN 15
    ELSE 20

\* a round score that is given whatever the guess was
RoundScoreAlways(difficulty_level, is_correct) ==
    (BaseScore * Multiplier10(difficulty_level)) \div 10

\* int(base_score * difficulty_multiplier) if is_correct else 0
RoundScore(difficulty_level, is_correct) ==
    IF is_correct THEN (BaseScore * Multiplier10(difficulty_level)) \div 10 ELSE 0

\* a test that lets a created session through as well
MaySubmitUnlessDone(status) == status \in {"active", "created"}

\* the test of submit_guess: the session is ACTIVE
MaySubmit(status) == status = "active"

SessionCall(op, arg, returned) == [op |-> op, key |-> arg, ok |-> returned]

SessionInit ==
    /\ MemInit
    /\ max_size = 0

SessionFrame ==
    UNCHANGED <<now, max_size, cache, ttl, redisVars, unavailable_since, histVars,
                threadVars, tasks, active_games, svcVars>>

\* GameSession.__init__
NewGameSession(difficulty) ==
    /\ session.status = "none"
    /\ session' = [status |-> "created", difficulty_level |-> difficulty,
                   selected_option |-> NoNumber, correct_option |-> NoNumber,
                   current_score |-> 0, rounds_played |-> 0, rounds_correct |-> 0,
                   result |-> [correct |-> FALSE, score |-> NoNumber]]
    /\ last' = SessionCall("init", NoNumber, TRUE)
    /\ SessionFrame

\* GameSession.set_market_data
set_market_data ==
    /\ session.status # "none"
    /\ session.rounds_played < SessionMaxRounds
    /\ session' = [session EXCEPT !.status = "active"]
    /\ last' = SessionCall("set_market_data", NoNumber, TRUE)
    /\ SessionFrame

\* GameSession.set_options
set_options(correct_option) ==
    /\ session.status # "none"
    /\ session' = [session EXCEPT !.correct_option = correct_option]
    /\ last' = SessionCall("set_options", correct_option, TRUE)
    /\ SessionFrame

\* the caller assigns session.status (the attribute is public: a game
\* that ran out of time is marked EXPIRED this way, and
\* test_calculate_accuracy re-opens a session this way)
AssignStatus(status) ==
    /\ session.status # "none"
    /\ status = "active" => session.rounds_played < SessionMaxRounds
    /\ session' = [session EXCEPT !.status = status]
    /\ last' = SessionCall("status", NoNumber, TRUE)
    /\ SessionFrame

\* GameSession.submit_guess
GameSession_submit_guess(selected_option) ==
    /\ session.status # "none"
    /\ SessionFrame
    /\ IF ~MaySubmit(session.status)
       THEN /\ last' = SessionCall("submit_guess", selected_option, FALSE)
            /\ UNCHANGED session
       ELSE LET is_correct == selected_option = session.correct_option
                round_score == RoundScore(session.difficulty_level, is_correct)
            IN  /\ session' =
                       [session EXCEPT
                           !.selected_option = selected_option,
                           !.status = "completed",
                           !.current_score = session.current_score + round_score,
                           !.rounds_played = session.rounds_played + 1,
                           !.rounds_correct = IF is_correct
                                              THEN session.rounds_correct + 1
                                              ELSE session.rounds_correct,
                           !.result = [correct |-> is_correct, score |-> round_score]]
                /\ last' = SessionCall("submit_guess", selected_option, is_correct)

SessionNext ==
    \/ \E d \in GameDifficulty : NewGameSession(d)
    \/ set_market_data
    \/ \E c \in Choices : set_options(c)
    \/ \E st \in {"active", "expired"} : AssignStatus(st)
    \/ \E c \in Choices : GameSession_submit_guess(c)

SpecSession == SessionInit /\ [][SessionNext]_vars

----------------------------------------------------------------------------
(* Properties of the session, checked under SpecSession *)

\* C24: submit_guess on a session that is not ACTIVE (CREATED, COMPLETED
\* or EXPIRED) returns False and changes nothing: status, selected_option,
\* score, rounds_played and rounds_correct keep their values.
C24_InactiveSubmitRejected ==
    [][(last'.op = "submit_guess" /\ session.status \in {"created", "completed", "expired"})
         => /\ last'.ok = FALSE
            /\ session'.status = session.status
            /\ session'.selected_option = session.selected_option
            /\ session'.current_score = session.current_score
            /\ session'.rounds_played = session.rounds_played
            /\ session'.rounds_correct = session.rounds_correct]_vars

\* a completed round with a wrong answer, and then a submit_guess of the
\* correct option that was turned away
C24_Witness ==
    /\ session.status = "completed"
    /\ last.op = "submit_guess" /\ last.ok = FALSE
    /\ last.key = session.correct_option
    /\ session.selected_option # session.correct_option
    /\ session.rounds_played = 1 /\ session.current_score = 0

\* the points of a correct guess, as the claim lists them
PointsFor(difficulty_level) ==
    CASE difficulty_level = "easy" -> 100
      [] difficulty_level = "medium" -> 150
      [] difficulty_level = "hard" -> 200

\* C25: submit_guess on an ACTIVE session moves it to COMPLETED, records
\* the selected option, adds one to rounds_played, adds one to
\* rounds_correct exactly when the selected option is the correct one,
\* and adds int(100 x multiplier) to the score exactly when it is correct
\* and nothing otherwise; rounds_correct never exceeds rounds_played.
C25_ActiveSubmitScores ==
    [][session'.status # "none"
         => /\ session'.rounds_correct <= session'.rounds_played
            /\ (last'.op = "submit_guess" /\ session.status = "active")
                => LET correct == last'.key = session.correct_option
                   IN  /\ session'.status = "completed"
                       /\ session'.selected_option = last'.key
                       /\ session'.rounds_played = session.rounds_played + 1
                       /\ session'.rounds_correct
                              = session.rounds_correct + IF correct THEN 1 ELSE 0
                       /\ session'.current_score
                              = session.current_score
                                  + IF correct THEN PointsFor(session.difficulty_level)
                                    ELSE 0]_vars

\* a MEDIUM session after two rounds, the first one correct (150 points),
\* the second one wrong
C25_Witness ==
    /\ session.status = "completed"
    /\ session.difficulty_level = "medium"
    /\ session.rounds_played = 2 /\ session.rounds_correct = 1
    /\ session.current_score = 150
    /\ last.op = "submit_guess" /\ last.ok = FALSE
    /\ session.selected_option # session.correct_option

-----------------------------------------------------------------------------
(* GameService.calculate_score on its own *)

ScoreMaxDifficulty == 3
ScoreMaxTime == 40

ScoreInit == MemInit /\ max_size = 0

\* one call of calculate_score: `last` records the arguments in key and
\* the score returned in val
CalculateScore(is_correct, difficulty, time_taken) ==
    /\ last' = [op |-> "score",
                key |-> <<is_correct, difficulty, time_taken>>,
                val |-> calculate_score(is_correct, difficulty, time_taken)]
    /\ UNCHANGED <<now, memVars, redisVars, unavailable_since, histVars>>
    /\ UNCHANGED otherVars

ScoreNext ==
    \E is_correct \in BOOLEAN, difficulty \in 1..ScoreMaxDifficulty,
       time_taken \in 0..ScoreMaxTime :
        CalculateScore(is_correct, difficulty, time_taken)

SpecScore == ScoreInit /\ [][ScoreNext]_vars

\* the time bonus of the claim: 50 up to 10 seconds, 0 from 30 seconds
\* on, and in between the largest whole number not above 50*(30-t)/20
ClaimedBonus(t) ==
    IF t <= 10 THEN 50
    ELSE IF t >= 30 THEN 0
    ELSE CHOOSE b \in 0..50 : 20 * b <= 50 * (30 - t) /\ 50 * (30 - t) < 20 * (b + 1)

\* C26: calculate_score returns 0 for an incorrect answer and, for a
\* correct answer with difficulty d after t whole seconds,
\* 100*d + d*b, where b is 50 if t <= 10, 0 if t >= 30 and
\* floor(50*(30-t)/20) otherwise.
C26_ScoreFormula ==
    last.op = "score"
        => LET is_correct == last.key[1]
               d == last.key[2]
               t == last.key[3]
           IN  last.val = IF is_correct THEN 100 * d + d * ClaimedBonus(t) ELSE 0

\* a correct answer of difficulty 2 after 20 seconds scores 250
C26_Witness ==
    /\ last.op = "score"
    /\ last.key = <<TRUE, 2, 20>>
    /\ last.val = 250

-----------------------------------------------------------------------------
(* Concurrent set_data calls on CompositeCache.  A coroutine runs without *)
(* interruption from one await of an executor future to the next:         *)
(* _should_try_redis and an is_available that finds the adapter           *)
(* disconnected have no such await; the ping, the setex and the store's   *)
(* _set_data each run in the executor, and the coroutine goes on when the *)
(* loop resumes it.                                                       *)

TaskKeys == {"A"}
TaskValues == {"v1", "v2", "obj"}
TaskClock == {1, 62}
\* the server is reachable or it is not
TaskModes == {"up", "down"}

\* coroutine t is at position pc
TaskAt(t, pc) == tasks[t].pc = pc

\* the coroutines are alike: a call is given to the first one that is free
TaskOrder == <<"a", "b", "c">>

FirstIdle(t) ==
    \E n \in 1..Len(TaskOrder) :
        /\ TaskOrder[n] = t
        /\ TaskAt(t, "idle")
        /\ \A k \in 1..(n - 1) : ~TaskAt(TaskOrder[k], "idle")

\* the adapter's call has returned redis_success: the availability update
\* of set_data, after which the coroutine awaits the store; sent tells
\* that the failure is the server's
AfterRemote(t, call, redis_success, sent) ==
    /\ unavailable_since' = SinceAfter(unavailable_since, now, redis_success)
    /\ firstFail' = IF ~redis_success /\ firstFail = 0 THEN now ELSE firstFail
    /\ tasks' = [tasks EXCEPT ![t] = [call EXCEPT !.pc = "memory",
                                                  !.at = IF sent /\ ~redis_success
                                                         THEN now ELSE 0]]

\* set_data is called: _should_try_redis, then RedisCache.set_data up to
\* the await of the ping
TaskStart(t, key, data) ==
    /\ FirstIdle(t)
    /\ LET try == ShouldTryRedis(unavailable_since, now)
           call == [IdleTask EXCEPT !.key = key, !.data = data]
       IN  IF ~try
           THEN /\ tasks' = [tasks EXCEPT ![t] = [call EXCEPT !.pc = "memory"]]
                /\ UNCHANGED <<unavailable_since, firstFail>>
           ELSE IF ~is_connected
           THEN AfterRemote(t, call, FALSE, FALSE)
           ELSE /\ tasks' = [tasks EXCEPT ![t] = [call EXCEPT !.pc = "ping"]]
                /\ UNCHANGED <<unavailable_since, firstFail>>
    /\ UNCHANGED <<now, memVars, redisVars, last, everOk, hist, threadVars,
                   active_games, session, svcVars>>

\* the ping has answered: is_available returns, then json.dumps, up to
\* the await of setex
TaskPing(t) ==
    /\ TaskAt(t, "ping")
    /\ is_connected' = (is_connected /\ mode # "down")
    /\ IF mode = "down" \/ ~Serializable(tasks[t].data)
       THEN AfterRemote(t, tasks[t], FALSE, mode = "down")
       ELSE /\ tasks' = [tasks EXCEPT ![t].pc = "setex"]
            /\ UNCHANGED <<unavailable_since, firstFail>>
    /\ UNCHANGED <<now, memVars, mode, rstore, last, everOk, hist, threadVars,
                   active_games, session, svcVars>>

\* setex has answered: RedisCache.set_data returns
TaskSetex(t) ==
    /\ TaskAt(t, "setex")
    /\ rstore' = IF mode = "up"
                 THEN DictPut(rstore, tasks[t].key,
                              [p |-> JsonDumps(tasks[t].data), exp |-> now + DefaultTTL])
                 ELSE rstore
    /\ AfterRemote(t, tasks[t], mode = "up", TRUE)
    /\ UNCHANGED <<now, memVars, mode, is_connected, last, everOk, hist, threadVars,
                   active_games, session, svcVars>>

\* the store's _set_data has run: set_data returns
TaskMemory(t) ==
    /\ TaskAt(t, "memory")
    /\ LET m == MemorySet(cache, ttl, max_size, now, tasks[t].key, tasks[t].data,
                          DefaultTTL)
       IN  /\ cache' = m.cache
           /\ ttl' = m.ttl
    /\ tasks' = [tasks EXCEPT ![t] = IdleTask]
    /\ UNCHANGED <<now, max_size, redisVars, unavailable_since, last, histVars,
                   threadVars, active_games, session, svcVars>>

TaskTick(reading) ==
    /\ reading > now
    /\ now' = reading
    /\ UNCHANGED <<memVars, redisVars, unavailable_since, last, histVars, otherVars>>

TaskNext ==
    \/ \E t \in TaskIds, key \in TaskKeys, data \in TaskValues : TaskStart(t, key, data)
    \/ \E t \in TaskIds : TaskPing(t)
    \/ \E t \in TaskIds : TaskSetex(t)
    \/ \E t \in TaskIds : TaskMemory(t)
    \/ \E m \in TaskModes : ServerChange(m)
    \/ \E reading \in TaskClock : TaskTick(reading)

TaskInit == Init /\ mode \in TaskModes

SpecTasks == TaskInit /\ [][TaskNext]_vars

\* the coroutines whose command to the server failed inside the retry
\* window that began at unavailable_since and whose call has not returned
FailedInWindow ==
    {t \in TaskIds :
        /\ TaskAt(t, "memory")
        /\ tasks[t].at # 0
        /\ tasks[t].at >= unavailable_since
        /\ tasks[t].at <= unavailable_since + RetryInterval}

\* C27: races on unavailable_since cost at most one remote attempt more
\* than a sequential execution makes within a retry window.  A sequential
\* execution makes one failing attempt in the window that the failure
\* opens (the calls after it skip the server), so at most two calls may
\* have failed at the server within one window.
C27_AtMostOneExtraAttempt ==
    unavailable_since # 0 => Cardinality(FailedInWindow) <= 2

\* no call is in progress and no call of the adapter has ever failed
AllDoneHealthy ==
    /\ \A t \in TaskIds : TaskAt(t, "idle")
    /\ firstFail = 0

\* C28: after concurrent set_data calls on one key have all completed,
\* the server healthy throughout, the server and the store hold the same
\* value for the key: get_data returns the same value from either tier.
C28_TiersAgree ==
    \A key \in TaskKeys :
        (AllDoneHealthy /\ key \in KeysOf(cache))
            => RedisGet(TRUE, "up", rstore, now, key).val
                   = MemoryGet(cache, ttl, now, key).val

\* coroutine t is the only one inside a call, and the call is a set_data
\* of a value that json.dumps rejects
AloneWithObject(t) ==
    /\ tasks[t].data = "obj"
    /\ \A u \in TaskIds : u # t => TaskAt(u, "idle")

\* C29: a set_data of a value that cannot be serialized, made while the
\* server is healthy and the failover state is Closed, fails at the
\* adapter, is stored in the store all the same, and leaves the failover
\* state Closed, so that later calls go to the server.
C29_UnserializableKeepsClosed ==
    [][\A t \in TaskIds :
          /\ (/\ AloneWithObject(t) /\ TaskAt(t, "ping")
              /\ mode = "up" /\ unavailable_since = 0
              /\ tasks'[t].pc = "memory")
                 => /\ rstore' = rstore
                    /\ unavailable_since' = 0
                    /\ ShouldTryRedis(unavailable_since', now')
          /\ (/\ AloneWithObject(t) /\ TaskAt(t, "memory")
              /\ tasks'[t].pc = "idle")
                 => MemoryGet(cache', ttl', now', tasks[t].key).val = "obj"]_vars

-----------------------------------------------------------------------------
(* The two maps of MemoryCache, checked under SpecMemory *)

\* C30: the value map and the expiry map of the store always have the
\* same key set, so the expiry map holds at most max_size keys.
C30_SameKeySets ==
    /\ DOMAIN ttl = KeysOf(cache)
    /\ (max_size > 0 => Cardinality(DOMAIN ttl) <= max_size)

\* C31: the store uses one expiry predicate: at any instant, the sweep
\* that set_data performs purges an entry exactly when get_data made at
\* that instant treats the entry as expired.
C31_OneExpiryPredicate ==
    \A key \in KeysOf(cache) :
        ~HasKey(CleanupExpired(cache, ttl, now).cache, key)
            <=> MemoryGet(cache, ttl, now, key).val = None

-----------------------------------------------------------------------------
(* More properties of the engine, checked under SpecEngine *)

\* the kind of dict a call returned: an error dict has the key error only
IsError(body) == DOMAIN body = {"error"}

\* C32: submit_guess on an unknown session id, or on a session whose
\* status is not "active", returns an error result and leaves the stored
\* game states as they are.
C32_RejectedGuessChangesNothing ==
    [][(/\ last'.op = "submit_guess" /\ now' = now
        /\ \/ last'.key \notin DOMAIN active_games
           \/ active_games[last'.key].status # "active")
         => /\ IsError(last'.body)
            /\ active_games' = active_games]_vars

\* a second guess on a round that was answered correctly is refused and
\* the score of the round stands
C32_Witness ==
    /\ last.op = "submit_guess"
    /\ IsError(last.body)
    /\ last.key \in DOMAIN active_games
    /\ active_games[last.key].status = "next_round"
    /\ active_games[last.key].is_correct = PyBool(TRUE)
    /\ active_games[last.key].score > 0

\* the guess stored for the session is the id of its correct option
GuessedRight(game_state) ==
    game_state.user_answer = FindCorrectOption(game_state.options)

\* C33: in every session state 0 <= lives <= 3; between the calls on a
\* session its score never decreases; lives drops by exactly one on each
\* incorrect guess and never otherwise; the status is "completed" when
\* lives is 0; a completed session is terminal: submit_guess and
\* next_round return an error and no call changes a field of it.
\* (seed_game begins a session: the clauses on steps are about the calls
\* made after it.)
C33_LivesScoreTerminal ==
    [][/\ \A sid \in DOMAIN active_games' :
              /\ active_games'[sid].lives \in 0..3
              /\ active_games'[sid].lives = 0 => active_games'[sid].status = "completed"
       /\ last'.op # "seed_game" =>
            \A sid \in DOMAIN active_games :
                LET g == active_games[sid]
                    h == active_games'[sid]
                    guessed == Submitted /\ last'.key = sid
                IN  /\ h.score >= g.score
                    /\ h.lives = g.lives - IF guessed /\ ~GuessedRight(h) THEN 1 ELSE 0
                    /\ g.status = "completed"
                           => /\ h = g
                              /\ (/\ last'.op \in {"submit_guess", "next_round"}
                                  /\ last'.key = sid /\ now' = now)
                                     => IsError(last'.body)]_vars

\* a session that lost its three lives, on which next_round is refused
C33_Witness ==
    /\ last.op = "next_round"
    /\ IsError(last.body)
    /\ last.key \in DOMAIN active_games
    /\ active_games[last.key].lives = 0
    /\ active_games[last.key].status = "completed"
    /\ active_games[last.key].round = 3

\* C34: rounds alternate with answers: next_round on a session whose
\* status is "active" (its round is unanswered) gives no fresh round: it
\* returns an error and leaves the stored options, lives and streak.
C34_NoFreshRoundUnanswered ==
    [][(/\ last'.op = "next_round" /\ now' = now
        /\ last'.key \in DOMAIN active_games
        /\ active_games[last'.key].status = "active")
         => /\ IsError(last'.body)
            /\ active_games' = active_games]_vars

-----------------------------------------------------------------------------
(* ConnectionManager and the websocket handlers of the game router.  A    *)
(* websocket is "new" until its handler has connected it, "open" while    *)
(* the handler waits in receive_text, "closing" once the peer or the      *)
(* server has closed it and the handler has not yet seen the              *)
(* WebSocketDisconnect, and "done" when the handler has ended.            *)

ClientIds == {"c1", "c2"}
GameIds == {"g1", "g2"}
ConnClock == {1, 32}
HeartbeatTimeout == 30

\* ConnectionManager.disconnect(client_id)
Disconnect(m, client_id) ==
    [active_connections |-> DictPop(m.active_connections, client_id),
     sessions |-> DictPop(m.sessions, client_id),
     last_activity |-> DictPop(m.last_activity, client_id)]

\* the websocket can carry a message
IsOpen(w) == sockets[w].state = "open"

ConnInit == MemInit /\ max_size = 0

ConnFrame ==
    UNCHANGED <<max_size, cache, ttl, redisVars, unavailable_since, last, histVars,
                threadVars, tasks, active_games, session, scheduler>>

\* websocket_endpoint up to its first receive_text: ConnectionManager.connect
connect(client_id, websocket) ==
    /\ sockets[websocket].state = "new"
    /\ sockets' = [sockets EXCEPT ![websocket] =
                       [state |-> "open", client_id |-> client_id]]
    /\ manager' = [manager EXCEPT
                       !.active_connections = DictPut(@, client_id, websocket),
                       !.last_activity = DictPut(@, client_id, now)]
    /\ UNCHANGED now
    /\ ConnFrame

\* one turn of the handler's loop: a pong, or a start_game that registers
\* the session and answers through send_json, which writes to the
\* websocket registered for the client; a failed write ends the handler
\* in its except clause
Receive(websocket, action, session_id) ==
    /\ IsOpen(websocket)
    /\ UNCHANGED now
    /\ ConnFrame
    /\ LET client_id == sockets[websocket].client_id
           active == [manager EXCEPT !.last_activity = DictPut(@, client_id, now)]
           started == [active EXCEPT !.sessions = DictPut(@, client_id, session_id)]
       IN  IF action = "pong"
           THEN manager' = active /\ UNCHANGED sockets
           ELSE IF client_id \notin DOMAIN started.active_connections
           THEN manager' = started /\ UNCHANGED sockets
           ELSE IF IsOpen(started.active_connections[client_id])
           THEN manager' = started /\ UNCHANGED sockets
           ELSE /\ manager' = Disconnect(started, client_id)
                /\ sockets' = [sockets EXCEPT ![websocket].state = "done"]

\* the client closes the websocket
PeerClose(websocket) ==
    /\ IsOpen(websocket)
    /\ sockets' = [sockets EXCEPT ![websocket].state = "closing"]
    /\ UNCHANGED <<now, manager>>
    /\ ConnFrame

\* receive_text raises WebSocketDisconnect: the handler disconnects its
\* client_id and ends
HandlerExit(websocket) ==
    /\ sockets[websocket].state = "closing"
    /\ manager' = Disconnect(manager, sockets[websocket].client_id)
    /\ sockets' = [sockets EXCEPT ![websocket].state = "done"]
    /\ UNCHANGED now
    /\ ConnFrame

\* _heartbeat_loop for one client: a stale client, or one whose ping
\* cannot be written, has its registered websocket closed and is
\* disconnected
Heartbeat(client_id) ==
    /\ client_id \in DOMAIN manager.active_connections
    /\ LET ws == manager.active_connections[client_id]
           stale == now - manager.last_activity[client_id] > HeartbeatTimeout
       IN  /\ stale \/ ~IsOpen(ws)
           /\ sockets' = [sockets EXCEPT ![ws].state =
                              IF IsOpen(ws) THEN "closing" ELSE @]
           /\ manager' = Disconnect(manager, client_id)
    /\ UNCHANGED now
    /\ ConnFrame

ConnTick(reading) ==
    /\ reading > now
    /\ now' = reading
    /\ UNCHANGED <<manager, sockets>>
    /\ ConnFrame

ConnNext ==
    \/ \E c \in ClientIds, w \in WsIds : connect(c, w)
    \/ \E w \in WsIds, a \in {"pong", "start_game"}, g \in GameIds : Receive(w, a, g)
    \/ \E w \in WsIds : PeerClose(w)
    \/ \E w \in WsIds : HandlerExit(w)
    \/ \E c \in ClientIds : Heartbeat(c)
    \/ \E reading \in ConnClock : ConnTick(reading)

SpecConnections == ConnInit /\ [][ConnNext]_vars

\* C35: a live connection stays registered: when the handler of an old
\* websocket of a client ends with disconnect(client_id) while a newer
\* websocket of that client is registered and open, the newer websocket,
\* its last_activity entry and its session mapping stay.
C35_ReconnectSurvivesOldDisconnect ==
    [][\A w \in WsIds :
          LET c == sockets[w].client_id
          IN  (/\ sockets[w].state = "closing" /\ sockets'[w].state = "done"
               /\ c \in DOMAIN manager.active_connections
               /\ manager.active_connections[c] # w
               /\ IsOpen(manager.active_connections[c]))
                 => /\ c \in DOMAIN manager'.active_connections
                    /\ manager'.active_connections[c] = manager.active_connections[c]
                    /\ c \in DOMAIN manager'.last_activity
                    /\ c \in DOMAIN manager.sessions
                           => /\ c \in DOMAIN manager'.sessions
                              /\ manager'.sessions[c] = manager.sessions[c]]_vars

-----------------------------------------------------------------------------
(* ETLScheduler and the threads it starts.  A thread is "unborn" until    *)
(* start creates it, at "test" when it is about to evaluate               *)
(* `while self.is_running`, in the "job" while the ETL job runs, in       *)
(* "sleep" during time.sleep, and "dead" when _run_scheduler has          *)
(* returned.                                                              *)

ThreadOrder == <<"T1", "T2", "T3">>

\* the thread that the next threading.Thread(...) creates
NextThread ==
    ThreadOrder[CHOOSE n \in 1..Len(ThreadOrder) :
                    /\ scheduler.at[ThreadOrder[n]] = "unborn"
                    /\ \A k \in 1..(n - 1) : scheduler.at[ThreadOrder[k]] # "unborn"]

SchedInit == MemInit /\ max_size = 0

SchedFrame ==
    UNCHANGED <<now, max_size, cache, ttl, redisVars, unavailable_since, histVars,
                threadVars, tasks, active_games, session, manager, sockets>>

\* what start and stop leave in `last`
SchedCall(op, done) == [op |-> op, ok |-> done]

\* ETLScheduler.start
start ==
    /\ SchedFrame
    /\ IF scheduler.is_running
       THEN /\ last' = SchedCall("start", FALSE)
            /\ UNCHANGED scheduler
       ELSE /\ \E t \in SchedulerThreads : scheduler.at[t] = "unborn"
            /\ last' = SchedCall("start", TRUE)
            /\ scheduler' = [is_running |-> TRUE,
                             scheduler_thread |-> NextThread,
                             at |-> [scheduler.at EXCEPT ![NextThread] = "test"]]

\* ETLScheduler.stop: join(timeout=1.0) waits for a thread that is about
\* to test is_running; a thread that sleeps or runs the job outlasts it
stop ==
    /\ SchedFrame
    /\ IF ~scheduler.is_running
       THEN /\ last' = SchedCall("stop", FALSE)
            /\ UNCHANGED scheduler
       ELSE /\ last' = SchedCall("stop", TRUE)
            /\ scheduler' =
                   [scheduler EXCEPT
                        !.is_running = FALSE,
                        !.at = [t \in SchedulerThreads |->
                                   IF t = scheduler.scheduler_thread /\ @[t] = "test"
                                   THEN "dead" ELSE @[t]]]

\* while self.is_running: and the body of the loop up to its blocking
\* call: the job when the clock shows the scheduled minute (due), the
\* sleep otherwise
LoopTest(t, due) ==
    /\ scheduler.at[t] = "test"
    /\ scheduler' = [scheduler EXCEPT !.at[t] =
                         IF ~scheduler.is_running THEN "dead"
                         ELSE IF due THEN "job" ELSE "sleep"]
    /\ UNCHANGED last
    /\ SchedFrame

\* the ETL job has run: time.sleep(60)
JobDone(t) ==
    /\ scheduler.at[t] = "job"
    /\ scheduler' = [scheduler EXCEPT !.at[t] = "sleep"]
    /\ last' = SchedCall("job", TRUE)
    /\ SchedFrame

\* time.sleep returns
Wake(t) ==
    /\ scheduler.at[t] = "sleep"
    /\ scheduler' = [scheduler EXCEPT !.at[t] = "test"]
    /\ UNCHANGED last
    /\ SchedFrame

SchedNext ==
    \/ start
    \/ stop
    \/ \E t \in SchedulerThreads, due \in BOOLEAN : LoopTest(t, due)
    \/ \E t \in SchedulerThreads : JobDone(t)
    \/ \E t \in SchedulerThreads : Wake(t)

SpecScheduler == SchedInit /\ [][SchedNext]_vars

\* C36: at most one thread executes the scheduling loop: start() while
\* running creates no thread, and after a stop() and a start() the
\* previous thread does not go round the loop again beside the new one:
\* only the scheduler's current thread passes the loop test, and the job
\* is never run by two threads at once.
C36_OneSchedulerThread ==
    [][/\ (scheduler.is_running /\ last'.op = "start" /\ last' # last)
             => scheduler'.at = scheduler.at
       /\ \A t \in SchedulerThreads :
              (scheduler.at[t] = "test" /\ scheduler'.at[t] \in {"job", "sleep"})
                  => t = scheduler.scheduler_thread
       /\ Cardinality({t \in SchedulerThreads : scheduler'.at[t] = "job"}) <= 1]_vars

-----------------------------------------------------------------------------
(* The market data path: MarketDataProcessor.process_stock_data, which    *)
(* the ETL job calls for every stock symbol, and the router's             *)
(* get_stock_data, both on the CompositeCache singleton.                  *)

StockSymbols == {<<"AAPL">>, <<"MSFT">>}
RequestedSymbols == {<<"AAPL">>, <<"aapl">>, <<"MSFT">>, <<"XXX">>}
MarketClock == {1, 86401, 86402}
EtlTTL == 86400

\* str.upper() on the symbols of the model
Upper(symbol) == IF symbol = <<"aapl">> THEN <<"AAPL">> ELSE symbol

\* the cache as one value: the store's maps, the adapter's flag, the
\* server's keyspace and the coordinator's timestamp
CacheNow ==
    [cache |-> cache, ttl |-> ttl, conn |-> is_connected, store |-> rstore,
     since |-> unavailable_since]

\* CompositeCache.get_data on the cache st: the cache after it and the
\* value returned
CompositeGet(st, m, tnow, key) ==
    LET try == ShouldTryRedis(st.since, tnow)
        r == RedisGet(st.conn, m, st.store, tnow, key)
        g == GetResult(try /\ r.val # None, r.val, st.cache, st.ttl,
                       MemoryGet(st.cache, st.ttl, tnow, key))
    IN  [st |-> [cache |-> g.cache, ttl |-> g.ttl,
                 conn |-> IF try THEN r.conn ELSE st.conn,
                 store |-> st.store,
                 since |-> IF try THEN SinceAfterGet(st.since, tnow, r.val)
                           ELSE st.since],
         val |-> g.val]

\* CompositeCache.set_data on the cache st: the cache after it
CompositeSet(st, m, size, tnow, key, data, ttl_seconds) ==
    LET try == ShouldTryRedis(st.since, tnow)
        r == RedisSet(st.conn, m, st.store, tnow, key, data, ttl_seconds)
        w == MemorySet(st.cache, st.ttl, size, tnow, key, data, ttl_seconds)
    IN  [cache |-> w.cache, ttl |-> w.ttl,
         conn |-> IF try THEN r.conn ELSE st.conn,
         store |-> IF try THEN r.store ELSE st.store,
         since |-> IF try THEN SinceAfter(st.since, tnow, r.ok) ELSE st.since]

\* the key under which the router looks a stock symbol up
RouterKey(symbol) == build_market_data_key(symbol, <<"daily">>, NoInterval)

\* the key under which process_stock_data caches a stock symbol
ProcessorKey(symbol) == build_market_data_key(symbol, <<"stock">>, NoInterval)

\* MarketDataProcessor.process_stock_data on the cache st: the cache after
\* it, the data returned (None when the API gives nothing) and whether
\* the API was asked
ProcessStockData(st, m, size, tnow, symbol, api_ok) ==
    LET got == CompositeGet(st, m, tnow, ProcessorKey(symbol))
    IN  IF got.val # None
        THEN [st |-> got.st, val |-> got.val, fetched |-> FALSE]
        ELSE IF ~api_ok
        THEN [st |-> got.st, val |-> None, fetched |-> TRUE]
        ELSE [st |-> CompositeSet(got.st, m, size, tnow, ProcessorKey(symbol),
                                  "v1", EtlTTL),
              val |-> "v1", fetched |-> TRUE]

\* the cache of the model becomes st
CacheBecomes(st) ==
    /\ cache' = st.cache
    /\ ttl' = st.ttl
    /\ is_connected' = st.conn
    /\ rstore' = st.store
    /\ unavailable_since' = st.since

MarketFrame ==
    UNCHANGED <<now, max_size, mode, histVars, otherVars>>

\* what a call of the market data path leaves in `last`: the symbol, the
\* data returned, whether process_stock_data ran and whether it asked
\* the API
MarketCall(op, symbol, val, processed, fetched) ==
    [op |-> op, key |-> symbol, val |-> val, processed |-> processed,
     fetched |-> fetched]

\* the ETL job's call for one stock symbol
process_stock_data(symbol, api_ok) ==
    LET p == ProcessStockData(CacheNow, mode, max_size, now, symbol, api_ok)
    IN  /\ CacheBecomes(p.st)
        /\ last' = MarketCall("process_stock_data", symbol, p.val, TRUE, p.fetched)
        /\ MarketFrame

\* the router's GET /market-data/stock/{symbol}; val "404" and "500"
\* stand for the HTTPException raised
get_stock_data(requested, api_ok) ==
    LET symbol == Upper(requested)
        got == CompositeGet(CacheNow, mode, now, RouterKey(symbol))
        p == ProcessStockData(got.st, mode, max_size, now, symbol, api_ok)
    IN  /\ MarketFrame
        /\ IF symbol \notin StockSymbols
           THEN /\ last' = MarketCall("get_stock_data", symbol, "404", FALSE, FALSE)
                /\ CacheBecomes(CacheNow)
           ELSE IF got.val # None
           THEN /\ last' = MarketCall("get_stock_data", symbol, got.val, FALSE, FALSE)
                /\ CacheBecomes(got.st)
           ELSE /\ last' = MarketCall("get_stock_data", symbol,
                                      IF p.val = None THEN "500" ELSE p.val,
                                      TRUE, p.fetched)
                /\ CacheBecomes(p.st)

MarketTick(reading) ==
    /\ reading > now
    /\ now' = reading
    /\ UNCHANGED <<memVars, redisVars, unavailable_since, last, histVars, otherVars>>

MarketNext ==
    \/ \E symbol \in StockSymbols, api_ok \in BOOLEAN : process_stock_data(symbol, api_ok)
    \/ \E requested \in RequestedSymbols, api_ok \in BOOLEAN :
           get_stock_data(requested, api_ok)
    \/ \E m \in Modes : ServerChange(m)
    \/ \E reading \in MarketClock : MarketTick(reading)

SpecMarket == Init /\ [][MarketNext]_vars

\* C37: data that process_stock_data has cached for a symbol is found by
\* the router's lookup for that symbol: while the cache serves the
\* processor's entry, get_stock_data returns that entry without calling
\* process_stock_data.
C37_RouterFindsEtlEntry ==
    [][\A symbol \in StockSymbols :
          (/\ last'.op = "get_stock_data" /\ last'.key = symbol
           /\ now' = now /\ mode' = mode
           /\ CompositeGet(CacheNow, mode, now, ProcessorKey(symbol)).val # None)
             => /\ ~last'.processed
                /\ last'.val = CompositeGet(CacheNow, mode, now,
                                            ProcessorKey(symbol)).val]_vars

====
